---- MODULE Spec2Model ----
(***************************************************************************)
(* Model of the partition-table tooling of esp32c3x4:                      *)
(*   - parse_partition_table  (src/analyze_flash.py)                       *)
(*   - find_partition_table   (src/search_partition_table.py)              *)
(* and of the boot-selector (OTA data) tooling:                            *)
(*   - create_otadata         (src/create_otadata.py)                      *)
(*   - create_otadata_switch  (src/create_correct_otadata.py)              *)
(*   - the OTA configuration check of src/full_check.py                    *)
(* A flash image is a byte buffer.  It is represented sparsely: a length   *)
(* and the content of the few 32-byte windows that are not erased (0xFF).  *)
(***************************************************************************)
EXTENDS Integers, Sequences, FiniteSets, TLC

\* ------------------------------------------------------------------ bounds
\* number of whole 4 KiB blocks an image may have (a partial block may follow)
MaxBlocks == 1
\* number of windows of an image that are written (not left erased)
MaxWritten == 2

\* ------------------------------------------------------- program constants
ENTRY_SIZE == 32
ALIGN == 4096
MAGIC_PARSER == 20650
MAGIC_SCANNER == 43600
MAGIC_END == 65535
TABLE_OFFSET == 32768
TABLE_LEN == 3072
OTADATA_SIZE == 8192

\* ------------------------------------------------------------ flash images
\* The window contents the images are built from (32 bytes each).
\*   bytes 0..1 magic, 2 type, 3 subtype, 4..7 offset, 8..11 size,
\*   12..27 label, 28..31 flags
\*   s_*: magic 50 AA   p_*: magic AA 50   md5: magic EB EB
\*   end_x: FF FF followed by other bytes
WindowBytes(k) ==
  CASE k = "s_app"   -> <<80,170, 0,16,   0,1,0,0,     0,2,0,0,
                          111,116,97,95,48,0,0,0,0,0,0,0,0,0,0,0,   0,0,0,0>>
    [] k = "s_big"   -> <<80,170, 1,130,  0,8,0,0,     0,9,0,0,
                          115,112,105,102,102,115,0,0,0,0,0,0,0,0,0,0,   0,0,0,0>>
    [] k = "s_zoff"  -> <<80,170, 1,2,    0,0,0,0,     0,2,0,0,
                          110,118,115,0,0,0,0,0,0,0,0,0,0,0,0,0,   0,0,0,0>>
    [] k = "s_zsize" -> <<80,170, 0,0,    0,1,0,0,     0,0,0,0,
                          102,97,99,0,0,0,0,0,0,0,0,0,0,0,0,0,   0,0,0,0>>
    [] k = "s_far"   -> <<80,170, 0,17,   0,0,0,128,   0,2,0,0,
                          111,116,97,95,49,0,0,0,0,0,0,0,0,0,0,0,   0,0,0,0>>
    [] k = "p_app"   -> <<170,80, 0,0,    0,0,1,0,     0,0,16,0,
                          102,97,99,116,111,114,121,0,0,0,0,0,0,0,0,0,   1,0,0,0>>
    [] k = "p_nvs"   -> <<170,80, 1,2,    0,144,0,0,   0,96,0,0,
                          110,118,115,195,0,0,0,0,0,0,0,0,0,0,0,0,   4,3,2,1>>
    [] k = "p_odd"   -> <<170,80, 64,127, 0,0,0,0,     0,0,0,0,
                          0,120,0,121,0,0,0,0,0,0,0,0,0,0,0,0,   255,255,255,255>>
    [] k = "md5"     -> <<235,235, 255,255, 255,255,255,255, 255,255,255,255,
                          1,2,3,4,5,6,7,8,9,10,11,12,13,14,15,16,   255,255,255,255>>
    [] k = "end_x"   -> <<255,255, 0,16,  0,1,0,0,     0,2,0,0,
                          170,80,80,170,0,0,0,0,0,0,0,0,0,0,0,0,   0,0,0,0>>

Written == {"s_app", "s_big", "s_zoff", "s_zsize", "s_far",
            "p_app", "p_nvs", "p_odd", "md5", "end_x"}

\* window positions that may be written: <<block, window in block>>
Slots == (0..MaxBlocks) \X (0..(MaxWritten - 1))

SlotStart(s) == s[1] * ALIGN + s[2] * ENTRY_SIZE

\* lengths of the partial block after the whole blocks
Tails == {0, 20, ENTRY_SIZE * MaxWritten, ENTRY_SIZE * MaxWritten + 8}

\* whole blocks of the one long image: it reaches 8 bytes past 0xE000
FarBlocks == 14

Lengths ==
  { nb * ALIGN + t : nb \in 0..MaxBlocks, t \in Tails } \cup { FarBlocks * ALIGN + 8 }

\* the written windows of an image of n bytes: at most MaxWritten, written
\* from the start of a block on without a gap
SlotSets(n) ==
  { S \in SUBSET { s \in Slots : SlotStart(s) < n } :
      /\ Cardinality(S) <= MaxWritten
      /\ \A s \in S : s[2] > 0 => <<s[1], s[2] - 1>> \in S }

Images ==
  UNION { { [len |-> n, head |-> h] : h \in UNION { [S -> Written] : S \in SlotSets(n) } } :
          n \in Lengths }

\* data[i] of the image
Byte(img, i) ==
  LET s == << i \div ALIGN, (i % ALIGN) \div ENTRY_SIZE >>
  IN  IF s \in DOMAIN img.head
        THEN WindowBytes(img.head[s])[(i % ENTRY_SIZE) + 1]
        ELSE 255

\* len(data) and data[a:b] of a buffer buf = [img, base, len] (a view of the
\* bytes base .. base+len-1 of img); Python slices clamp to the buffer
BufLen(buf) == buf.len

Min(a, b) == IF a < b THEN a ELSE b
Max(a, b) == IF a > b THEN a ELSE b

Slice(buf, a, b) ==
  LET hi == Min(b, buf.len)
  IN  [i \in 1..Max(0, hi - a) |-> Byte(buf.img, buf.base + a + i - 1)]

SubBuf(img, a, b) ==
  [img |-> img, base |-> Min(a, img.len), len |-> Max(0, Min(b, img.len) - a)]

\* ----------------------------------------------------------------- struct
\* struct.unpack('<H', b)[0] and struct.unpack('<I', b)[0]
UnpackH(b) == b[1] + 256 * b[2]
\* An unsigned 32-bit value v is kept as its two 16-bit halves,
\* v = hi * 65536 + lo (a value above 2^31 - 1 does not fit a TLC integer).
HALF == 65536
\* the four bytes read in big-endian order
UnpackI_BigEndian(b) == [hi |-> b[2] + 256 * b[1], lo |-> b[4] + 256 * b[3]]

UnpackI(b) == [hi |-> b[3] + 256 * b[4], lo |-> b[1] + 256 * b[2]]

\* v > 0 and v < n for a 32-bit value v and an integer n >= 0
U32Pos(v) == v.hi > 0 \/ v.lo > 0
U32Lt(v, n) == v.hi < n \div HALF \/ (v.hi = n \div HALF /\ v.lo < n % HALF)

\* ------------------------------------------------------------------ labels
\* bytes.decode('ascii', errors='ignore'): bytes above 0x7F are dropped
IsAscii(x) == x < 128
DecodeAscii(b) == SelectSeq(b, IsAscii)

\* str.rstrip('\x00')
RECURSIVE RStripNul(_)
RStripNul(s) ==
  IF s # <<>> /\ s[Len(s)] = 0 THEN RStripNul(SubSeq(s, 1, Len(s) - 1)) ELSE s

Label(entry) == RStripNul(DecodeAscii(SubSeq(entry, 13, 28)))

\* ------------------------------------------------------------------- names
HexChars == <<"0","1","2","3","4","5","6","7","8","9","a","b","c","d","e","f">>
Hex02(n) == HexChars[(n \div 16) + 1] \o HexChars[(n % 16) + 1]

TypeName(ptype) ==
  CASE ptype = 0 -> "app"
    [] ptype = 1 -> "data"
    [] OTHER     -> "type_" \o Hex02(ptype)

\* SubtypeName giving the generic label for every type without a table
SubtypeName_GenericForAll(ptype, subtype) ==
  IF ptype = 0 THEN
    CASE subtype = 0  -> "factory"
      [] subtype = 16 -> "ota_0"
      [] subtype = 17 -> "ota_1"
      [] subtype = 18 -> "ota_2"
      [] subtype = 32 -> "test"
      [] OTHER        -> "subtype_" \o Hex02(subtype)
  ELSE IF ptype = 1 THEN
    CASE subtype = 0   -> "ota"
      [] subtype = 1   -> "phy"
      [] subtype = 2   -> "nvs"
      [] subtype = 3   -> "coredump"
      [] subtype = 4   -> "nvs_keys"
      [] subtype = 5   -> "efuse"
      [] subtype = 130 -> "spiffs"
      [] subtype = 131 -> "fat"
      [] OTHER         -> "subtype_" \o Hex02(subtype)
  ELSE "subtype_" \o Hex02(subtype)

SubtypeName(ptype, subtype) ==
  IF ptype = 0 THEN
    CASE subtype = 0  -> "factory"
      [] subtype = 16 -> "ota_0"
      [] subtype = 17 -> "ota_1"
      [] subtype = 18 -> "ota_2"
      [] subtype = 32 -> "test"
      [] OTHER        -> "subtype_" \o Hex02(subtype)
  ELSE IF ptype = 1 THEN
    CASE subtype = 0   -> "ota"
      [] subtype = 1   -> "phy"
      [] subtype = 2   -> "nvs"
      [] subtype = 3   -> "coredump"
      [] subtype = 4   -> "nvs_keys"
      [] subtype = 5   -> "efuse"
      [] subtype = 130 -> "spiffs"
      [] subtype = 131 -> "fat"
      [] OTHER         -> "subtype_" \o Hex02(subtype)
  ELSE ""

\* ------------------------------------------------------------------ state
VARIABLES
  flash,       \* flash_data: the image read from flash_dump.bin
  pc,          \* the control position: "start", "parse", "parsed", "scan",
               \* "inner", "scanned", "error" (an exception left the function)
  data,        \* the argument of the running function
  offset,      \* parse_partition_table: offset; find_partition_table: offset
  pos,         \* find_partition_table: pos
  entry,       \* the 32-byte window read last
  partitions,  \* the list being collected
  results,     \* find_partition_table: results
  dump,        \* the lines "offset: hex bytes" the caller of the scan prints
               \* when no table was found
  gen,         \* the selector generator called
  target,      \* its argument target_ota / target_app
  otadata,     \* its bytearray otadata
  verify,      \* full_check.py: data, the content of otadata_verify.bin
  seq,         \* full_check.py: seq
  ota_seq,     \* full_check.py: ota_seq
  crc,         \* full_check.py: crc
  setting,     \* full_check.py: the OTA setting it prints
  rec,         \* the partition entry a single window was made from
  calls        \* the calls that have returned: function, argument, result

tabvars == <<flash, data, offset, pos, entry, partitions, results, dump>>
selvars == <<gen, target, otadata, verify, seq, ota_seq, crc, setting>>
vars == <<flash, pc, data, offset, pos, entry, partitions, results, dump,
          gen, target, otadata, verify, seq, ota_seq, crc, setting, rec, calls>>

\* nothing of the selector tooling has run
SelIdle ==
  /\ gen = "" /\ target = "" /\ otadata = <<>> /\ verify = <<>>
  /\ seq = <<>> /\ ota_seq = <<>> /\ crc = <<>> /\ setting = ""

Init ==
  /\ flash \in Images
  /\ pc = "start"
  /\ data = SubBuf(flash, 0, 0)
  /\ offset = 0
  /\ pos = 0
  /\ entry = <<>>
  /\ partitions = <<>>
  /\ results = <<>>
  /\ dump = <<>>
  /\ SelIdle
  /\ rec = <<>>
  /\ calls = <<>>

\* ------------------------------------------- analyze_flash.py: the parser
\* the dict appended for a window with valid magic
ParserEntry(e) ==
  LET ptype   == e[3]
      subtype == e[4]
  IN  [ label   |-> Label(e),
        type    |-> TypeName(ptype),
        subtype |-> SubtypeName(ptype, subtype),
        offset  |-> UnpackI(SubSeq(e, 5, 8)),
        size    |-> UnpackI(SubSeq(e, 9, 12)),
        flags   |-> UnpackI(SubSeq(e, 29, 32)) ]

\* ParserBranch without the break of line 71
ParserBranch_NoBreak(e) ==
  LET magic == UnpackH(SubSeq(e, 1, 2))
  IN  IF magic = MAGIC_PARSER THEN "entry" ELSE "next"

\* ParserBranch taking for the end only a window that is erased throughout
ParserBranch_ErasedOnly(e) ==
  LET magic == UnpackH(SubSeq(e, 1, 2))
  IN  IF magic = MAGIC_PARSER THEN "entry"
      ELSE IF \A i \in 1..Len(e) : e[i] = 255 THEN "break"
      ELSE "next"

\* ParserBranch leaving the loop at any window that is no entry
ParserBranch_BreakOther(e) ==
  LET magic == UnpackH(SubSeq(e, 1, 2))
  IN  IF magic = MAGIC_PARSER THEN "entry" ELSE "break"

\* ParserBranch with the bounds test of the scanner for zero values
ParserBranch_NonZero(e) ==
  LET magic == UnpackH(SubSeq(e, 1, 2))
  IN  IF magic = MAGIC_PARSER
        THEN IF U32Pos(UnpackI(SubSeq(e, 5, 8))) /\ U32Pos(UnpackI(SubSeq(e, 9, 12)))
               THEN "entry" ELSE "break"
      ELSE IF magic = MAGIC_END THEN "break"
      ELSE "next"

\* what one iteration does with the window: "entry" appends and goes on,
\* "break" leaves the loop, "next" goes on to the next window
ParserBranch(e) ==
  LET magic == UnpackH(SubSeq(e, 1, 2))
  IN  IF magic = MAGIC_PARSER THEN "entry"
      ELSE IF magic = MAGIC_END THEN "break"
      ELSE "next"

\* partition_table_data = flash_data[o:o+0xC00]; parse_partition_table(...)
ParseStarts == {TABLE_OFFSET} \cup { b * ALIGN : b \in 0..MaxBlocks }

\* a list kept between the calls instead of a new one
NewPartitions_Shared(old) == old

\* partitions = [] (line 9): the list of the call, whatever an earlier call
\* has left
NewPartitions(old) == <<>>

CallParse ==
  /\ pc = "start"
  /\ \E o \in ParseStarts : data' = SubBuf(flash, o, o + TABLE_LEN)
  /\ pc' = "parse"
  /\ offset' = 0
  /\ partitions' = NewPartitions(partitions)
  /\ UNCHANGED <<flash, pos, entry, results>>
  /\ UNCHANGED <<selvars, rec, calls, dump>>

\* the while condition without the test of lines 22-23
ParserHasWindow_NoLengthCheck(o, n) == o < n

\* the while condition of line 12 and the test of lines 22-23: a whole
\* window lies at offset o of a buffer of n bytes
ParserHasWindow(o, n) == o < n /\ ~(o + ENTRY_SIZE > n)

\* the step of line 73 left out
ParserStep_Stay(o) == o

\* the step of line 73 going on by two windows
ParserStep_TwoWindows(o) == o + 2 * ENTRY_SIZE

\* offset += 32
ParserStep(o) == o + ENTRY_SIZE

\* struct.unpack and entry[i] raise on a slice e that is too short: '<H'
\* needs entry[0:2] whole, an entry needs bytes 2..32
ParserRaises(e) ==
  \/ Len(e) < 2
  \/ UnpackH(SubSeq(e, 1, 2)) = MAGIC_PARSER /\ Len(e) < ENTRY_SIZE

\* one test of the while condition and, if it holds, one pass of the body
ParseIter ==
  /\ pc = "parse"
  /\ IF ParserHasWindow(offset, BufLen(data))
       THEN LET e == Slice(data, offset, offset + ENTRY_SIZE)
                b == ParserBranch(e)
            IN  /\ entry' = e
                /\ IF ParserRaises(e)
                     THEN pc' = "error" /\ UNCHANGED <<offset, partitions>>
                     ELSE /\ partitions' = IF b = "entry"
                                             THEN Append(partitions, ParserEntry(e))
                                             ELSE partitions
                          /\ IF b = "break"
                               THEN pc' = "parsed" /\ offset' = offset
                               ELSE pc' = "parse" /\ offset' = ParserStep(offset)
       ELSE /\ pc' = "parsed"
            /\ UNCHANGED <<offset, entry, partitions>>
  /\ UNCHANGED <<flash, data, pos, results>>
  /\ UNCHANGED <<selvars, rec, calls, dump>>

\* ----------------------------------- search_partition_table.py: the scanner
ScannerEntry(e) ==
  [ label   |-> Label(e),
    type    |-> e[3],
    subtype |-> e[4],
    offset  |-> UnpackI(SubSeq(e, 5, 8)),
    size    |-> UnpackI(SubSeq(e, 9, 12)) ]

\* the test of line 34 without "psize > 0"
Plausible_ZeroSize(poffset, psize, n) ==
  U32Pos(poffset) /\ U32Lt(poffset, n) /\ U32Lt(psize, n)

\* the test of line 34
Plausible(poffset, psize, n) ==
  U32Pos(poffset) /\ U32Lt(poffset, n) /\ U32Pos(psize) /\ U32Lt(psize, n)

\* what one pass of the inner loop does with the window
ScannerBranch(e, n) ==
  LET entry_magic == UnpackH(SubSeq(e, 1, 2))
  IN  IF entry_magic = MAGIC_SCANNER
        THEN IF Plausible(UnpackI(SubSeq(e, 5, 8)), UnpackI(SubSeq(e, 9, 12)), n)
               THEN "entry" ELSE "break"
      ELSE IF entry_magic = MAGIC_END THEN "break"
      ELSE "break"

\* lines 50-54, appending whatever was collected
Report_Always(res, o, parts) ==
  Append(res, [location |-> o, partitions |-> parts])

\* lines 50-54, putting the location found in front
Report_Prepend(res, o, parts) ==
  IF parts # <<>> THEN <<[location |-> o, partitions |-> parts]>> \o res ELSE res

\* lines 50-54: results after the candidate at offset o collected parts
Report(res, o, parts) ==
  IF parts # <<>> THEN Append(res, [location |-> o, partitions |-> parts]) ELSE res

\* the for loop stepping by two blocks
NextCandidate_TwoBlocks(o) == o + 2 * ALIGN

\* the for loop stepping by one window
NextCandidate_OneWindow(o) == o + ENTRY_SIZE

\* the for loop never leaving its candidate
NextCandidate_Stay(o) == o

\* the for loop stepping by half a block
NextCandidate_HalfBlock(o) == o + ALIGN \div 2

\* range(0, len(data), 0x1000): the candidate after o
NextCandidate(o) == o + ALIGN

\* the candidate test of lines 16-17
IsCandidate(buf, o) == UnpackH(Slice(buf, o, o + 2)) = MAGIC_SCANNER

CallScan ==
  /\ pc = "start"
  /\ data' = SubBuf(flash, 0, flash.len)
  /\ pc' = "scan"
  /\ offset' = 0
  /\ results' = <<>>
  /\ UNCHANGED <<flash, pos, entry, partitions>>
  /\ UNCHANGED <<selvars, rec, calls, dump>>

\* struct.unpack and entry[i] raise on a slice e that is too short: '<H'
\* needs entry[0:2] whole, an entry needs bytes 2..12
ScannerRaises(e) ==
  \/ Len(e) < 2
  \/ UnpackH(SubSeq(e, 1, 2)) = MAGIC_SCANNER /\ Len(e) < 12

\* the for loop: one candidate offset
ScanCandidate ==
  /\ pc = "scan"
  /\ IF offset < BufLen(data) /\ ~(offset + ENTRY_SIZE > BufLen(data))
       THEN IF Len(Slice(data, offset, offset + 2)) < 2
              THEN /\ pc' = "error"
                   /\ UNCHANGED <<offset, pos, partitions>>
            ELSE IF IsCandidate(data, offset)
              THEN /\ partitions' = <<>>
                   /\ pos' = offset
                   /\ pc' = "inner"
                   /\ offset' = offset
              ELSE /\ offset' = NextCandidate(offset)
                   /\ UNCHANGED <<pc, pos, partitions>>
       ELSE /\ pc' = "scanned"
            /\ UNCHANGED <<offset, pos, partitions>>
  /\ UNCHANGED <<flash, data, entry, results>>
  /\ UNCHANGED <<selvars, rec, calls, dump>>

\* the while loop: one test of its condition and one pass of its body; when
\* the loop is left, lines 50-54 and the step of the for loop follow
ScanInner ==
  /\ pc = "inner"
  /\ \E e \in {Slice(data, pos, pos + ENTRY_SIZE)} :
      LET more == pos + ENTRY_SIZE <= BufLen(data)
          b    == IF more THEN ScannerBranch(e, BufLen(data)) ELSE "break"
      IN  /\ entry' = IF more THEN e ELSE entry
          /\ IF more /\ ScannerRaises(e)
               THEN /\ pc' = "error"
                    /\ UNCHANGED <<pos, offset, partitions, results>>
             ELSE IF b = "entry"
               THEN /\ partitions' = Append(partitions, ScannerEntry(e))
                    /\ pos' = pos + ENTRY_SIZE
                    /\ UNCHANGED <<pc, offset, results>>
               ELSE /\ results' = Report(results, offset, partitions)
                    /\ offset' = NextCandidate(offset)
                    /\ pc' = "scan"
                    /\ UNCHANGED <<pos, partitions>>
  /\ UNCHANGED <<flash, data>>
  /\ UNCHANGED <<selvars, rec, calls, dump>>

\* the line printed for the bytes buf[o:o+n]
DumpLine(buf, o, n) == [at |-> o, bytes |-> Slice(buf, o, o + n)]

\* the offsets of line 108
KnownOffsets == <<32768, 36864, 53248, 57344>>

\* the else branch of line 98 taken whatever the scan found
Fallback_Always(res, buf) ==
  <<DumpLine(buf, 0, 4)>> \o [i \in 1..4 |-> DumpLine(buf, KnownOffsets[i], 16)]

\* lines 67-110: the lines of raw bytes printed when the scan found nothing
\* (the bootloader magic, then 16 bytes at each known offset); none when
\* tables were found and printed
Fallback(res, buf) ==
  IF res # <<>> THEN <<>>
  ELSE <<DumpLine(buf, 0, 4)>> \o [i \in 1..4 |-> DumpLine(buf, KnownOffsets[i], 16)]

\* the caller of the scan, after find_partition_table has returned
Diagnose ==
  /\ pc = "scanned"
  /\ dump' = Fallback(results, data)
  /\ pc' = "reported"
  /\ UNCHANGED <<flash, data, offset, pos, entry, partitions, results>>
  /\ UNCHANGED <<selvars, rec, calls>>

Next == CallParse \/ ParseIter \/ CallScan \/ ScanCandidate \/ ScanInner \/ Diagnose

Spec == Init /\ [][Next]_vars

\* ------------------------------ create_otadata.py, create_correct_otadata.py
\* the bitwise exclusive or of two 16-bit values, and of two 32-bit values
RECURSIVE Xor16(_, _)
Xor16(a, b) ==
  IF a = 0 THEN b
  ELSE IF b = 0 THEN a
  ELSE ((a + b) % 2) + 2 * Xor16(a \div 2, b \div 2)

XorU32(a, b) == [hi |-> Xor16(a.hi, b.hi), lo |-> Xor16(a.lo, b.lo)]

\* v >> 1
ShiftRight(v) == [hi |-> v.hi \div 2, lo |-> (v.lo \div 2) + (v.hi % 2) * 32768]

\* binascii.crc32: the reflected CRC-32 of polynomial 0xEDB88320, initial
\* value and final xor 0xFFFFFFFF
CrcPoly == [hi |-> 60856, lo |-> 33568]
AllOnes == [hi |-> 65535, lo |-> 65535]

RECURSIVE CrcShift(_, _)
CrcShift(c, k) ==
  IF k = 0 THEN c
  ELSE CrcShift(IF c.lo % 2 = 1 THEN XorU32(ShiftRight(c), CrcPoly) ELSE ShiftRight(c),
                k - 1)

CrcByte(c, x) == CrcShift(XorU32(c, [hi |-> 0, lo |-> x]), 8)

\* the register after the bytes b[i..]; the register after one byte is taken
\* from a singleton set, so that it is a value before the next byte is read
RECURSIVE CrcBytes(_, _, _)
CrcBytes(c, b, i) ==
  IF i > Len(b) THEN c
  ELSE CHOOSE r \in {CrcBytes(d, b, i + 1) : d \in {CrcByte(c, b[i])}} : TRUE

\* binascii.crc32 of the first four bytes only
Crc32_FirstWord(b) == XorU32(CrcBytes(AllOnes, SubSeq(b, 1, 4), 1), AllOnes)

Crc32(b) == XorU32(CrcBytes(AllOnes, b, 1), AllOnes)

\* struct.pack('<I', v) writing the most significant byte first
PackI_BigEndian(v) == <<v.hi \div 256, v.hi % 256, v.lo \div 256, v.lo % 256>>

\* struct.pack('<I', v)
PackI(v) == <<v.lo % 256, v.lo \div 256, v.hi % 256, v.hi \div 256>>

\* a small integer as a 32-bit value
U32(n) == [hi |-> 0, lo |-> n]

\* a buffer of n zero bytes
Filled_Zero(n) == [i \in 1..n |-> 0]

\* bytearray([0xFF] * n)
Filled(n) == [i \in 1..n |-> 255]

\* ota_map of create_otadata without 'ota_2'
OtaMap_TwoSlots(g) ==
  IF g = "create_otadata" THEN [ota_0 |-> 0, ota_1 |-> 1]
  ELSE [app0 |-> 0, app1 |-> 1]

\* ota_map with the entries of create_otadata_switch exchanged
OtaMap_Exchanged(g) ==
  IF g = "create_otadata" THEN [ota_0 |-> 0, ota_1 |-> 1, ota_2 |-> 2]
  ELSE [app0 |-> 1, app1 |-> 0]

\* ota_map of the generator g
OtaMap(g) ==
  IF g = "create_otadata" THEN [ota_0 |-> 0, ota_1 |-> 1, ota_2 |-> 2]
  ELSE [app0 |-> 0, app1 |-> 1]

\* b with b[a:a+len(w)] = w (a counted from 0)
Store(b, a, w) ==
  [i \in 1..Len(b) |-> IF i > a /\ i <= a + Len(w) THEN w[i - a] ELSE b[i]]

\* the first 12 bytes written by both generators for the index i
SelectorRecord(i) ==
  LET entry_data == PackI(U32(1)) \o PackI(U32(i))
      c          == Crc32(entry_data)
  IN  PackI(U32(1)) \o PackI(U32(i)) \o PackI(c)

Generators == {"create_otadata", "create_otadata_switch"}
Targets == {"ota_0", "ota_1", "ota_2", "ota_3", "app0", "app1", "factory"}

\* the call, and the bytearray of 8 KiB of 0xFF
CallCreate ==
  /\ pc = "sel_start"
  /\ gen' \in Generators
  /\ target' \in Targets
  /\ otadata' = Filled(OTADATA_SIZE)
  /\ pc' = "create"
  /\ UNCHANGED <<tabvars, verify, seq, ota_seq, crc, setting, rec, calls>>

\* the rest of the function: the ValueError for a target outside ota_map
\* (the bytearray is dropped), or entry 0 written and the bytearray returned
CreateWrite ==
  /\ pc = "create"
  /\ IF target \notin DOMAIN OtaMap(gen)
       THEN /\ pc' = "raised"
            /\ otadata' = <<>>
       ELSE /\ otadata' = Store(otadata, 0, SelectorRecord(OtaMap(gen)[target]))
            /\ pc' = "returned"
  /\ UNCHANGED <<tabvars, gen, target, verify, seq, ota_seq, crc, setting, rec, calls>>

\* --------------------------------------------------------- full_check.py
\* b with bit k (bit k % 8 of byte k \div 8) inverted
FlipBit(b, k) ==
  LET i == k \div 8 + 1
      w == 2 ^ (k % 8)
  IN  [b EXCEPT ![i] = IF (b[i] \div w) % 2 = 1 THEN b[i] - w ELSE b[i] + w]

\* the region was written to the device and read back to otadata_verify.bin:
\* unchanged, with one bit of its first 12 bytes inverted, or cut short
ReadBack ==
  /\ pc = "returned"
  /\ \/ verify' = otadata
     \/ \E k \in 0..95 : verify' = FlipBit(otadata, k)
     \/ \E n \in {0, 10} : verify' = SubSeq(otadata, 1, n)
  /\ pc' = "check"
  /\ UNCHANGED <<tabvars, gen, target, otadata, seq, ota_seq, crc, setting, rec, calls>>

\* the setting printed for ota_seq (lines 27-32)
Setting(v) ==
  IF v = U32(1) THEN "app1" ELSE IF v = U32(0) THEN "app0" ELSE "unset"

\* lines 15-34: the three fields are unpacked and the setting is printed; a
\* slice shorter than 4 bytes makes struct.unpack raise, which is caught
FullCheck ==
  /\ pc = "check"
  /\ IF Len(verify) >= 12
       THEN /\ seq' = UnpackI(SubSeq(verify, 1, 4))
            /\ ota_seq' = UnpackI(SubSeq(verify, 5, 8))
            /\ crc' = UnpackI(SubSeq(verify, 9, 12))
            /\ setting' = Setting(UnpackI(SubSeq(verify, 5, 8)))
            /\ pc' = "checked"
       ELSE /\ seq' = IF Len(verify) >= 4 THEN UnpackI(SubSeq(verify, 1, 4)) ELSE seq
            /\ ota_seq' = IF Len(verify) >= 8 THEN UnpackI(SubSeq(verify, 5, 8)) ELSE ota_seq
            /\ crc' = crc
            /\ setting' = "unreadable"
            /\ pc' = "checked"
  /\ UNCHANGED <<tabvars, gen, target, otadata, verify, rec, calls>>

InitSel ==
  /\ flash = [len |-> 0, head |-> <<>>]
  /\ pc = "sel_start"
  /\ data = SubBuf(flash, 0, 0)
  /\ offset = 0
  /\ pos = 0
  /\ entry = <<>>
  /\ partitions = <<>>
  /\ results = <<>>
  /\ dump = <<>>
  /\ SelIdle
  /\ rec = <<>>
  /\ calls = <<>>

NextSel == CallCreate \/ CreateWrite \/ ReadBack \/ FullCheck

SpecSel == InitSel /\ [][NextSel]_vars

\* ------------------------------------- one entry window, written and decoded
\* the values of the fields of an entry: labels of at most 16 ASCII bytes
\* without trailing NUL ("", "nvs", "a\0b", 16 letters), type and subtype
\* bytes (every key of the two tables, unknown codes), 32-bit words
EntryLabels ==
  { <<>>, <<110, 118, 115>>, <<97, 0, 98>>, [i \in 1..16 |-> 96 + i] }
EntryTypes == {0, 1, 64, 255}
EntrySubtypes == {0, 1, 2, 3, 4, 5, 16, 17, 18, 32, 127, 130, 131}
EntryWords == {U32(0), [hi |-> 1, lo |-> 0], [hi |-> 65535, lo |-> 65535]}

Entries ==
  [ label : EntryLabels, part_type : EntryTypes, subtype : EntrySubtypes,
    offset : EntryWords \ {U32(0)}, size : EntryWords \ {AllOnes},
    flags : EntryWords \ {[hi |-> 1, lo |-> 0]} ]

\* bytes 2..32 of the window of the entry r: type, subtype, offset, size,
\* the label padded with NUL to 16 bytes, flags
EntryFields(r) ==
  <<r.part_type, r.subtype>> \o PackI(r.offset) \o PackI(r.size)
    \o r.label \o [i \in 1..(16 - Len(r.label)) |-> 0] \o PackI(r.flags)

\* EntryCodec.encode: the window with the magic bytes 50 AA
Encode(r) == <<80, 170>> \o EntryFields(r)

\* the window as parse_partition_table takes it for an entry: '<H' of the
\* first two bytes is 0x50AA
StoredEntry(r) == <<170, 80>> \o EntryFields(r)

\* the window is made from the entry: by encode, or as stored for the parser
EncodeEntry ==
  /\ pc = "codec"
  /\ entry' = Encode(rec)
  /\ pc' = "window"
  /\ UNCHANGED <<flash, data, offset, pos, partitions, results, dump, selvars, rec, calls>>

StoreEntry ==
  /\ pc = "codec"
  /\ entry' = StoredEntry(rec)
  /\ pc' = "window"
  /\ UNCHANGED <<flash, data, offset, pos, partitions, results, dump, selvars, rec, calls>>

\* lines 25-69 on the one window: the dict appended, if any
DecodeEntry ==
  /\ pc = "window"
  /\ partitions' = IF ParserBranch(entry) = "entry" THEN <<ParserEntry(entry)>>
                                                    ELSE <<>>
  /\ pc' = "decoded"
  /\ UNCHANGED <<flash, data, offset, pos, entry, results, dump, selvars, rec, calls>>

InitCodec ==
  /\ flash = [len |-> 0, head |-> <<>>]
  /\ pc = "codec"
  /\ data = SubBuf(flash, 0, 0)
  /\ offset = 0
  /\ pos = 0
  /\ entry = <<>>
  /\ partitions = <<>>
  /\ results = <<>>
  /\ dump = <<>>
  /\ SelIdle
  /\ rec \in Entries
  /\ calls = <<>>

NextCodec == EncodeEntry \/ StoreEntry \/ DecodeEntry

SpecCodec == InitCodec /\ [][NextCodec]_vars

\* ------------------------------------------------- calls made one after another
\* the number of calls that return before the last call is made: of the
\* parser and the scanner, and of the generators
MaxCalls == 2
MaxBuilds == 1

\* images of one block whose first windows are written, each with an entry
\* for the scanner or an entry for the parser
CallImages ==
  { [len |-> ALIGN, head |-> h] :
      h \in UNION { [ { <<0, w>> : w \in 0..(k - 1) } -> {"s_app", "p_nvs"} ] :
                    k \in 1..MaxWritten } }

\* the function that has run, with its argument, and what it returns
CallOf ==
  IF pc = "parsed" THEN [fn |-> "parse_partition_table", arg |-> data]
  ELSE IF pc = "scanned" THEN [fn |-> "find_partition_table", arg |-> data]
  ELSE [fn |-> gen, arg |-> target]

ResultOf ==
  IF pc = "parsed" THEN partitions
  ELSE IF pc = "scanned" THEN results
  ELSE IF pc = "raised" THEN <<"ValueError">>
  ELSE otadata

\* the function returns to its caller, which may call again: the names of
\* the call that has ended keep their values
Again ==
  /\ pc \in {"parsed", "scanned", "returned", "raised"}
  /\ Len(calls) < (IF pc \in {"parsed", "scanned"} THEN MaxCalls ELSE MaxBuilds)
  /\ calls' = Append(calls, [call |-> CallOf, result |-> ResultOf])
  /\ pc' = IF pc \in {"parsed", "scanned"} THEN "start" ELSE "sel_start"
  /\ UNCHANGED <<tabvars, selvars, rec>>

\* a process that calls the parser and the scanner on one image, or one that
\* calls the generators
InitCalls ==
  /\ \/ flash \in CallImages /\ pc = "start"
     \/ flash = [len |-> 0, head |-> <<>>] /\ pc = "sel_start"
  /\ data = SubBuf(flash, 0, 0)
  /\ offset = 0
  /\ pos = 0
  /\ entry = <<>>
  /\ partitions = <<>>
  /\ results = <<>>
  /\ dump = <<>>
  /\ SelIdle
  /\ rec = <<>>
  /\ calls = <<>>

NextCalls ==
  \/ CallParse \/ ParseIter \/ CallScan \/ ScanCandidate \/ ScanInner
  \/ CallCreate \/ CreateWrite \/ Again

SpecCalls == InitCalls /\ [][NextCalls]_vars

\* ------------------------------------------------------ images of long tables
\* images of two blocks: block 0 is written from its start with one window,
\* with all its windows but the last, or with all 128 of them; block 1 with
\* up to MaxWritten windows; every written window is the same entry
LongImages ==
  { [len  |-> 2 * ALIGN,
     head |-> [s \in ({0} \X (0..(n - 1))) \cup ({1} \X (0..(m - 1))) |-> k]] :
      n \in {1, ALIGN \div ENTRY_SIZE - 1, ALIGN \div ENTRY_SIZE},
      m \in 0..MaxWritten,
      k \in {"s_app", "s_big", "p_app"} }

InitLong ==
  /\ flash \in LongImages
  /\ pc = "start"
  /\ data = SubBuf(flash, 0, 0)
  /\ offset = 0
  /\ pos = 0
  /\ entry = <<>>
  /\ partitions = <<>>
  /\ results = <<>>
  /\ dump = <<>>
  /\ SelIdle
  /\ rec = <<>>
  /\ calls = <<>>

SpecLong == InitLong /\ [][Next]_vars

\* ------------------------------------------------- the scan running to its end
\* images of one block and a partial block, their written windows plausible
\* entries or entries of offset zero
FairImages ==
  { img \in Images :
      /\ img.len \in { ALIGN + t : t \in Tails }
      /\ \A s \in DOMAIN img.head : img.head[s] \in {"s_app", "s_zoff"} }

InitFair ==
  /\ flash \in FairImages
  /\ pc = "start"
  /\ data = SubBuf(flash, 0, 0)
  /\ offset = 0
  /\ pos = 0
  /\ entry = <<>>
  /\ partitions = <<>>
  /\ results = <<>>
  /\ dump = <<>>
  /\ SelIdle
  /\ rec = <<>>
  /\ calls = <<>>

\* find_partition_table runs on once called: a loop that can take a step
\* takes it
SpecFair ==
  InitFair /\ [][Next]_vars /\ WF_vars(ScanCandidate) /\ WF_vars(ScanInner)

\* ------------------------------------------------------------ properties
\* window j of a buffer, and the number of whole windows it holds
Win(buf, j) == Slice(buf, j * 32, j * 32 + 32)
NWin(buf) == buf.len \div 32

\* window j of buf starts with the bytes b0 b1
MagicAt(buf, j, b0, b1) ==
  /\ Byte(buf.img, buf.base + j * 32) = b0
  /\ Byte(buf.img, buf.base + j * 32 + 1) = b1

StartsFFFF(e) == e[1] = 255 /\ e[2] = 255
StartsAA50(e) == e[1] = 170 /\ e[2] = 80
Starts50AA(e) == e[1] = 80 /\ e[2] = 170

\* the entries of the windows 0..k-1 that start with the bytes b0 b1, in
\* disk order
RECURSIVE EntriesWith(_, _, _, _)
EntriesWith(buf, k, b0, b1) ==
  IF k = 0 THEN <<>>
  ELSE LET r == EntriesWith(buf, k - 1, b0, b1)
       IN  IF MagicAt(buf, k - 1, b0, b1)
             THEN Append(r, ParserEntry(Win(buf, k - 1))) ELSE r

EntriesUpTo(buf, k) == EntriesWith(buf, k, 170, 80)

\* the first window from j on that starts with FF FF, or the number of
\* whole windows
RECURSIVE FirstEndFrom(_, _)
FirstEndFrom(buf, j) ==
  IF j >= NWin(buf) \/ MagicAt(buf, j, 255, 255) THEN j ELSE FirstEndFrom(buf, j + 1)

FirstEnd(buf) == FirstEndFrom(buf, 0)

\* the first window from j on that does not start with AA 50, or the number
\* of whole windows
RECURSIVE FirstNonEntryFrom(_, _)
FirstNonEntryFrom(buf, j) ==
  IF j >= NWin(buf) \/ ~MagicAt(buf, j, 170, 80) THEN j ELSE FirstNonEntryFrom(buf, j + 1)

FirstNonEntry(buf) == FirstNonEntryFrom(buf, 0)

InParser == pc \in {"parse", "parsed"}

\* C1: parse_partition_table stops at the first window whose magic is FF FF:
\* the walk never goes past such a window, and the list holds, in disk
\* order, entries of windows before it only.
C1_StopsAtFirstSentinel ==
  InParser =>
    /\ offset \div 32 <= FirstEnd(data)
    /\ partitions = EntriesUpTo(data, offset \div 32)

\* a region whose window 0 is an entry and whose window 1 starts with FF FF
\* and is not erased: the walk has ended there with the one entry
C1_Witness ==
  /\ pc = "parsed"
  /\ NWin(data) >= 2
  /\ StartsAA50(Win(data, 0))
  /\ Win(data, 1) = WindowBytes("end_x")
  /\ offset = 32
  /\ Len(partitions) = 1

C3_SentinelPrecedence ==
  /\ InParser =>
        /\ \A j \in 0..(offset \div 32 - 1) : ~MagicAt(data, j, 255, 255)
        /\ Len(partitions) <= offset \div 32
        /\ (pc = "parse" /\ entry # <<>>) => ~StartsFFFF(entry)
  /\ pc = "inner" =>
        /\ \A j \in (offset \div 32)..(pos \div 32 - 1) : ~MagicAt(data, j, 255, 255)
        /\ Len(partitions) = (pos - offset) \div 32
  /\ \A r \in 1..Len(results) :
        \A i \in 1..Len(results[r].partitions) :
          ~MagicAt(data, results[r].location \div 32 + i - 1, 255, 255)

\* the inner loop of the scanner has read a window that starts with FF FF
\* and is not erased, after one entry; the location holds that one entry
C3_Witness ==
  /\ pc = "scan"
  /\ entry = WindowBytes("end_x")
  /\ Len(results) = 1
  /\ Len(results[1].partitions) = 1

\* C4 as stated: the parser and the scanner take a window for an entry exactly
\* when it starts with the bytes 50 AA.
C4_SameMagic ==
  /\ InParser => partitions = EntriesWith(data, offset \div 32, 80, 170)
  /\ (pc = "inner" /\ pos > offset) => Starts50AA(entry)

\* the value of bytes i..i+3 (1-based) of e read little-endian, or -1 when
\* it is 2^31 or more
Field(e, i) ==
  IF e[i + 3] >= 128 THEN -1
  ELSE e[i] + 256 * e[i + 1] + 65536 * e[i + 2] + 16777216 * e[i + 3]

\* v is the little-endian value of bytes i..i+3 (1-based) of e
IsLE(v, e, i) ==
  /\ v.lo \in 0..65535 /\ v.hi \in 0..65535
  /\ v.lo % 256 = e[i]     /\ v.lo \div 256 = e[i + 1]
  /\ v.hi % 256 = e[i + 2] /\ v.hi \div 256 = e[i + 3]

LastOf(s) == s[Len(s)]

\* C5: the entry made from a window has type = byte 2 and subtype = byte 3
\* (the parser: their names), offset = bytes 4..8, size = bytes 8..12 and
\* flags = bytes 28..32, each an unsigned little-endian 32-bit value.
C5_DecodeFields ==
  /\ (pc = "parse" /\ entry # <<>> /\ StartsAA50(entry)) =>
        LET p == LastOf(partitions)
        IN  /\ IsLE(p.offset, entry, 5)
            /\ IsLE(p.size, entry, 9)
            /\ IsLE(p.flags, entry, 29)
            /\ (p.type = "app") = (entry[3] = 0)
            /\ (p.type = "data") = (entry[3] = 1)
  /\ (pc = "inner" /\ pos > offset) =>
        LET p == LastOf(partitions)
        IN  /\ IsLE(p.offset, entry, 5)
            /\ IsLE(p.size, entry, 9)
            /\ p.type = entry[3]
            /\ p.subtype = entry[4]

\* the parser has just appended the entry of a window with
\* offset 00 90 00 00, size 00 60 00 00 and flags 04 03 02 01
C5_Witness ==
  /\ pc = "parse"
  /\ entry = WindowBytes("p_nvs")
  /\ LastOf(partitions).offset = [hi |-> 0, lo |-> 36864]
  /\ LastOf(partitions).size = [hi |-> 0, lo |-> 24576]
  /\ LastOf(partitions).flags = [hi |-> 258, lo |-> 772]

\* a + b <= n for 32-bit values a, b and an integer n >= 0
U32SumLe(a, b, n) ==
  IF a.hi + b.hi > n \div HALF + 1 THEN FALSE
  ELSE (a.hi + b.hi) * HALF + a.lo + b.lo <= n

\* C6 as stated: every entry the scanner reports has offset + size <= the
\* length of the image.
C6_OffsetPlusSizeWithinImage ==
  \A r \in 1..Len(results) :
    \A i \in 1..Len(results[r].partitions) :
      LET p == results[r].partitions[i]
      IN  U32SumLe(p.offset, p.size, BufLen(data))

\* 0 < v < n for a 32-bit value v, by its value
U32Within(v, n) ==
  /\ v.hi < 32768
  /\ 0 < v.hi * HALF + v.lo
  /\ v.hi * HALF + v.lo < n

\* C7: every entry the scanner collects or reports, the first one of a
\* location included, has 0 < offset < len(data) and 0 < size < len(data).
C7_EntriesPlausible ==
  /\ pc = "inner" =>
        \A i \in 1..Len(partitions) :
          /\ U32Within(partitions[i].offset, flash.len)
          /\ U32Within(partitions[i].size, flash.len)
  /\ \A r \in 1..Len(results) :
        \A i \in 1..Len(results[r].partitions) :
          /\ U32Within(results[r].partitions[i].offset, flash.len)
          /\ U32Within(results[r].partitions[i].size, flash.len)

\* a scan has ended with one location of two entries
C7_Witness ==
  /\ pc = "scanned"
  /\ Len(results) = 1
  /\ Len(results[1].partitions) = 2

\* the candidate offsets of an image: the multiples of 4096 with a whole
\* window
Candidates(buf) == { c \in { b * 4096 : b \in 0..(buf.len \div 4096) } : c + 32 <= buf.len }

\* the window at c starts with 50 AA and its offset and size are within
\* 0 < . < len
GoodFirst(buf, c) ==
  LET e == Win(buf, c \div 32)
  IN  /\ MagicAt(buf, c \div 32, 80, 170)
      /\ 0 < Field(e, 5) /\ Field(e, 5) < buf.len
      /\ 0 < Field(e, 9) /\ Field(e, 9) < buf.len

Locations == { results[r].location : r \in 1..Len(results) }

\* C8: the scanner reports a candidate exactly when the strict parse there
\* gives at least one entry: no location has an empty list, and the
\* locations are the candidates whose first window is a plausible entry.
C8_ReportedIffEntry ==
  /\ \A r \in 1..Len(results) : results[r].partitions # <<>>
  /\ pc = "scanned" => Locations = { c \in Candidates(data) : GoodFirst(data, c) }

\* a scan has ended, one candidate with magic 50 AA was left out and another
\* was reported
C8_Witness ==
  /\ pc = "scanned"
  /\ Len(results) = 1
  /\ \E c \in Candidates(data) :
        MagicAt(data, c \div 32, 80, 170) /\ c \notin Locations

\* C9: the locations in results are in strictly ascending order.
C9_AscendingLocations ==
  \A i \in 1..Len(results) : \A j \in 1..Len(results) :
    i < j => results[i].location < results[j].location

\* a scan has ended with two locations
C9_Witness ==
  /\ pc = "scanned"
  /\ Len(results) = 2

\* the windows from candidate c on that start with 50 AA and are plausible,
\* up to the first window that is not
RECURSIVE TableLen(_, _)
TableLen(buf, j) ==
  IF j < NWin(buf) /\ GoodFirst(buf, j * 32) THEN 1 + TableLen(buf, j + 1) ELSE 0

\* the image holds one table: at candidate c, of plausible entries, followed
\* by a window that starts with FF FF; no other candidate starts with 50 AA
OneTableAt(buf, c) ==
  /\ c \in Candidates(buf)
  /\ TableLen(buf, c \div 32) >= 1
  /\ c \div 32 + TableLen(buf, c \div 32) < NWin(buf)
  /\ MagicAt(buf, c \div 32 + TableLen(buf, c \div 32), 255, 255)
  /\ \A d \in Candidates(buf) \ {c} : ~MagicAt(buf, d \div 32, 80, 170)

\* C10: scanning an image that holds exactly one table returns exactly one
\* location, at the offset of the table, with the entries of the table.
C10_SingleTable ==
  pc = "scanned" =>
  \A c \in Candidates(data) :
    OneTableAt(data, c) =>
      /\ Len(results) = 1
      /\ results[1].location = c
      /\ Len(results[1].partitions) = TableLen(data, c \div 32)

\* a scan has ended on an image with one table in block 1 and a written
\* window at offset 0
C10_Witness ==
  /\ pc = "scanned"
  /\ OneTableAt(data, 4096)
  /\ <<0, 0>> \in DOMAIN flash.head
  /\ Len(results) = 1

\* ------------------------------------------------- properties of the selector
\* the index that a target name stands for
IndexOf(t) ==
  IF t \in {"ota_0", "app0"} THEN 0 ELSE IF t \in {"ota_1", "app1"} THEN 1 ELSE 2

\* C11: for every supported index i the returned region holds, at bytes 0..4,
\* the value 1 in little-endian order, at bytes 4..8 the value i in
\* little-endian order, and at bytes 8..12 the little-endian CRC-32 of bytes
\* 0..8 (0xA988DFF7 for index 0, 0x1134B892 for index 1, 0x0381177C for
\* index 2).
C11_RecordLayout ==
  pc = "returned" =>
    LET i      == IndexOf(target)
        crc_le == <<(<<247, 223, 136, 169>>), (<<146, 184, 52, 17>>),
                    (<<124, 23, 129, 3>>)>>
    IN  /\ SubSeq(otadata, 1, 4) = <<1, 0, 0, 0>>
        /\ SubSeq(otadata, 5, 8) = <<i, 0, 0, 0>>
        /\ SubSeq(otadata, 9, 12) = crc_le[i + 1]
        /\ UnpackI(SubSeq(otadata, 9, 12)) = Crc32(SubSeq(otadata, 1, 8))

\* create_otadata has returned the region that selects index 2
C11_Witness ==
  /\ pc = "returned"
  /\ gen = "create_otadata"
  /\ target = "ota_2"
  /\ SubSeq(otadata, 5, 8) = <<2, 0, 0, 0>>

\* C12: the returned region is exactly 8192 bytes long and every byte after
\* the first 12 is 0xFF, the second slot (bytes 4096..8191) included; the
\* sequence field of the first slot is 1.
C12_ErasedOutsideRecord ==
  pc = "returned" =>
    /\ Len(otadata) = 8192
    /\ \A k \in 13..Len(otadata) : otadata[k] = 255
    /\ \A k \in 4097..8192 : otadata[k] = 255
    /\ UnpackI(SubSeq(otadata, 1, 4)) = U32(1)

\* create_otadata_switch has returned a region whose first 12 bytes are
\* written (the checksum of index 1 has no 0xFF byte)
C12_Witness ==
  /\ pc = "returned"
  /\ gen = "create_otadata_switch"
  /\ target = "app1"
  /\ \A k \in 1..12 : otadata[k] # 255
  /\ otadata[13] = 255

\* C13 as stated: build never ends in an error
C13_BuildNeverFails == pc # "raised"

\* C13 amended: build succeeds exactly for the target names of the
\* generator's own map (ota_0, ota_1, ota_2 for create_otadata; app0, app1
\* for create_otadata_switch) and returns a region; for any other target it
\* raises ValueError and no region is produced.
C13_FailsOutsideMap ==
  LET supported == IF gen = "create_otadata" THEN {"ota_0", "ota_1", "ota_2"}
                   ELSE {"app0", "app1"}
  IN  /\ pc = "returned" => target \in supported /\ Len(otadata) = 8192
      /\ pc = "raised" => target \notin supported /\ otadata = <<>>

\* create_otadata was called with a name of the other generator's map and
\* has raised
C13_Witness ==
  /\ pc = "raised"
  /\ gen = "create_otadata"
  /\ target = "app1"
  /\ otadata = <<>>

\* the check has accepted the record: it has printed a selection
Accepted == setting \in {"app0", "app1"}

\* the data read back is the region with only byte 0 changed
ByteZeroCorrupted ==
  /\ Len(verify) = Len(otadata)
  /\ verify[1] # otadata[1]
  /\ \A k \in 2..12 : verify[k] = otadata[k]

\* C14: the check of the first 12 bytes of a built region succeeds with
\* sequence 1 and the selected index; after byte 0 of those bytes is
\* corrupted the check fails.
C14_RoundTripAndCorruption ==
  pc = "checked" =>
    /\ verify = otadata =>
         /\ setting # "unreadable"
         /\ seq = U32(1)
         /\ ota_seq = U32(IndexOf(target))
    /\ ByteZeroCorrupted => ~Accepted

\* C15: a record whose stored checksum differs from the CRC-32 of its first
\* 8 bytes is rejected, and its selection is not reported.
C15_MismatchRejected ==
  pc = "checked" /\ Len(verify) >= 12 =>
    (crc # Crc32(SubSeq(verify, 1, 8)) => ~Accepted)

\* C16: when one bit of the first 8 bytes of a built slot is inverted and the
\* stored checksum is left as it was, the check fails.
C16_SingleBitDetected ==
  pc = "checked" =>
    \A k \in 0..63 : verify = FlipBit(otadata, k) => ~Accepted

\* ------------------------------------------------ properties of the codec
\* the dict d holds the fields of the entry r, the type under its name
SameEntry(d, r) ==
  /\ d.label = r.label
  /\ d.offset = r.offset
  /\ d.size = r.size
  /\ d.flags = r.flags
  /\ d.type = (IF r.part_type = 0 THEN "app"
               ELSE IF r.part_type = 1 THEN "data"
               ELSE "type_" \o Hex02(r.part_type))

\* C17: decoding the window that encode makes of a valid entry gives that
\* entry back.
C17_RoundTrip ==
  pc = "decoded" /\ entry = Encode(rec) =>
    /\ Len(partitions) = 1
    /\ SameEntry(partitions[1], rec)

\* the two subtype tables, keyed by <<part_type, subtype>>
SubtypeTable ==
  (<<0, 0>> :> "factory") @@ (<<0, 16>> :> "ota_0") @@ (<<0, 17>> :> "ota_1")
  @@ (<<0, 18>> :> "ota_2") @@ (<<0, 32>> :> "test")
  @@ (<<1, 0>> :> "ota") @@ (<<1, 1>> :> "phy") @@ (<<1, 2>> :> "nvs")
  @@ (<<1, 3>> :> "coredump") @@ (<<1, 4>> :> "nvs_keys")
  @@ (<<1, 5>> :> "efuse") @@ (<<1, 130>> :> "spiffs") @@ (<<1, 131>> :> "fat")

\* the type name of the decoded entry is 'app', 'data' or type_<hex>
TypeNamed ==
  partitions[1].type =
    (IF rec.part_type = 0 THEN "app"
     ELSE IF rec.part_type = 1 THEN "data"
     ELSE "type_" \o Hex02(rec.part_type))

\* C19 as stated: the type name is 'app', 'data' or type_<hex>, and for
\* every (part_type, subtype) pair the subtype name is the entry of the
\* table or the generic subtype_<hex>.
C19_GenericForUnknown ==
  pc = "decoded" /\ partitions # <<>> =>
    /\ TypeNamed
    /\ partitions[1].subtype =
         (IF <<rec.part_type, rec.subtype>> \in DOMAIN SubtypeTable
            THEN SubtypeTable[<<rec.part_type, rec.subtype>>]
            ELSE "subtype_" \o Hex02(rec.subtype))

\* C19 amended: the type name is 'app', 'data' or type_<hex>; for part_type
\* 0x00 and 0x01 the subtype name is the entry of that type's table or
\* subtype_<hex>; for every other part_type the subtype name is empty.
C19_EmptyForOtherTypes ==
  pc = "decoded" /\ partitions # <<>> =>
    /\ TypeNamed
    /\ partitions[1].subtype =
         (IF <<rec.part_type, rec.subtype>> \in DOMAIN SubtypeTable
            THEN SubtypeTable[<<rec.part_type, rec.subtype>>]
          ELSE IF rec.part_type \in {0, 1}
            THEN "subtype_" \o Hex02(rec.subtype)
          ELSE "")

\* an entry of the vendor type 0x40 with subtype 0x7f was decoded
C19_Witness ==
  /\ pc = "decoded"
  /\ partitions # <<>>
  /\ rec.part_type = 64
  /\ rec.subtype = 127
  /\ partitions[1].type = "type_40"
  /\ partitions[1].subtype = ""

\* ------------------------------------- properties of the loops as a whole
\* C18: on every image neither parse_partition_table nor
\* find_partition_table is left by an exception: no window is decoded that
\* is too short for the fields read from it.
C18_NoErrorPropagates ==
  /\ pc # "error"
  /\ Len(entry) \in {0, ENTRY_SIZE}

\* a parse has ended normally on a region of 20 bytes that starts with the
\* magic of an entry: the window is cut short and was not decoded
C18_Witness ==
  /\ pc = "parsed"
  /\ BufLen(data) = 20
  /\ Slice(data, 0, 2) = <<170, 80>>
  /\ partitions = <<>>
  /\ entry = <<>>

\* C20: the parser ends on every region: each pass of the loop either leaves
\* it or moves offset one window on, never past the end of the region. It
\* decodes whole windows only, so of a region of n bytes (at most 0xC00) it
\* returns at most floor(n / 32) entries (at most 96), and bytes after the
\* last whole window are not read.
C20_TerminatesWithinRegion ==
  /\ [](pc \in {"parse", "parsed"} =>
          /\ BufLen(data) <= TABLE_LEN
          /\ offset % ENTRY_SIZE = 0
          /\ offset <= BufLen(data)
          /\ Len(partitions) <= offset \div ENTRY_SIZE + 1
          /\ Len(partitions) <= BufLen(data) \div ENTRY_SIZE
          /\ Len(partitions) <= 96
          /\ Len(entry) \in {0, ENTRY_SIZE})
  /\ [][pc = "parse" =>
          \/ pc' = "parsed" /\ offset' = offset
          \/ pc' = "parse" /\ offset' = offset + ENTRY_SIZE]_vars

\* a parse of a region of 72 bytes has ended with two entries: the last 8
\* bytes fill no window
C20_Witness ==
  /\ pc = "parsed"
  /\ BufLen(data) = 72
  /\ offset = 64
  /\ Len(partitions) = 2

\* --------------------------------------------- properties of the scan loops
\* C21: the scan looks at multiples of 4096 only: every location reported
\* is a multiple of 4096, has a whole 32-byte window before the end of the
\* image, and that window starts with the magic bytes 50 AA; the candidate
\* under examination is a multiple of 4096 as well.
C21_AlignedCandidates ==
  /\ pc \in {"scan", "inner", "scanned"} => offset % 4096 = 0
  /\ \A r \in 1..Len(results) :
        LET loc == results[r].location
        IN  /\ loc % 4096 = 0
            /\ loc + 32 <= BufLen(data)
            /\ Slice(data, loc, loc + 2) = <<80, 170>>

\* a scan has ended with the location 4096 alone; the candidate at 0 is
\* erased, starts with FF FF and is not reported
C21_Witness ==
  /\ pc = "scanned"
  /\ Locations = {4096}
  /\ Slice(data, 0, 2) = <<255, 255>>

\* the window e holds an entry that is zero-offset, zero-sized or points
\* outside an image of n bytes
Rejectable(e, n) ==
  LET poffset == UnpackI(SubSeq(e, 5, 8))
      psize   == UnpackI(SubSeq(e, 9, 12))
  IN  \/ ~U32Pos(poffset)
      \/ ~U32Pos(psize)
      \/ ~U32SumLe(poffset, psize, n)

\* C22: the strict loop stops at the first entry that is zero-sized,
\* zero-offset or points outside the image: a location holds the entries of
\* the windows from its offset on, as collected, and none of them is such an
\* entry or lies after one.
C22_StopsAtFirstRejected ==
  \A r \in 1..Len(results) :
    LET loc == results[r].location
        k   == Len(results[r].partitions)
    IN  \A i \in 1..k :
          LET e == Win(data, loc \div 32 + i - 1)
          IN  /\ results[r].partitions[i] = ScannerEntry(e)
              /\ ~Rejectable(e, BufLen(data))

\* C23: the parser has no bounds policy: every window walked that starts with
\* its magic gives an entry, with the offset and size read from the window,
\* whatever these values are, and the walk never ends at such a window.
C23_NoBoundsPolicy ==
  InParser =>
    LET W == { j \in 0..(offset \div 32 - 1) : MagicAt(data, j, 170, 80) }
    IN  /\ Len(partitions) = Cardinality(W)
        /\ \A j \in W :
             LET i == Cardinality({ h \in W : h <= j })
             IN  /\ partitions[i].offset = UnpackI(SubSeq(Win(data, j), 5, 8))
                 /\ partitions[i].size = UnpackI(SubSeq(Win(data, j), 9, 12))
        /\ pc = "parsed" =>
             \/ offset \div 32 >= NWin(data)
             \/ ~MagicAt(data, offset \div 32, 170, 80)

\* a parse of a region of 64 bytes has returned two entries: one with offset
\* 0 and size 0, one with offset 0x10000 and size 0x100000, beyond the image
C23_Witness ==
  /\ pc = "parsed"
  /\ BufLen(data) = 64
  /\ Len(partitions) = 2
  /\ \E i \in 1..2 : /\ partitions[i].offset = U32(0)
                     /\ partitions[i].size = U32(0)
  /\ \E i \in 1..2 : /\ partitions[i].offset = [hi |-> 1, lo |-> 0]
                     /\ partitions[i].size = [hi |-> 16, lo |-> 0]

\* the bytes image[o:o+16], cut at the end of the image
RawAt(o) ==
  [k \in 1..Max(0, Min(16, flash.len - o)) |-> Byte(flash, o + k - 1)]

\* C24: once the caller of the scan has reported, the raw bytes at 0x8000,
\* 0x9000, 0xD000 and 0xE000 were printed, in that order, exactly when the
\* scan returned no location; when it returned one, nothing of the kind was
\* printed.
C24_FallbackIffNothingFound ==
  pc = "reported" =>
    /\ results # <<>> => dump = <<>>
    /\ results = <<>> =>
         /\ Len(dump) >= 4
         /\ LET last4 == SubSeq(dump, Len(dump) - 3, Len(dump))
            IN  /\ [i \in 1..4 |-> last4[i].at] = <<32768, 36864, 53248, 57344>>
                /\ \A i \in 1..4 : last4[i].bytes = RawAt(last4[i].at)

\* the scan of the long image found nothing: 16 erased bytes were printed
\* for 0x8000 and the 8 bytes the image has from 0xE000 on
C24_Witness ==
  /\ pc = "reported"
  /\ results = <<>>
  /\ flash.len > 57344
  /\ dump[2] = [at |-> 32768, bytes |-> [k \in 1..16 |-> 255]]
  /\ dump[5] = [at |-> 57344, bytes |-> [k \in 1..8 |-> 255]]

\* ------------------------------------------- properties of repeated calls
\* the call that has just ended
Ended == pc \in {"parsed", "scanned", "returned", "raised"}

C26_ExactlyTheEntryWindows ==
  pc = "parsed" =>
    LET end == FirstEnd(data)
        W   == { j \in 0..(end - 1) : MagicAt(data, j, 170, 80) }
    IN  /\ offset = end * 32
        /\ Len(partitions) = Cardinality(W)
        /\ \A j \in W :
             partitions[Cardinality({ h \in W : h <= j })] = ParserEntry(Win(data, j))

\* the region that starts at 4096 holds a window with the magic 50 AA and
\* then a window with the magic AA 50: the parse has returned the entry of
\* the second window alone
C26_Witness ==
  /\ pc = "parsed"
  /\ data.base = 4096
  /\ MagicAt(data, 0, 80, 170)
  /\ MagicAt(data, 1, 170, 80)
  /\ partitions = <<ParserEntry(Win(data, 1))>>

\* C27: when the parser has run on the bytes from a location that an earlier
\* scan of the same image reported, the entries of that location are the
\* leading entries of the parser's list: same label, offset and size, in the
\* same order.
C27_ScannerPrefixOfParser ==
  pc = "parsed" =>
    \A c \in 1..Len(calls) :
      calls[c].call.fn = "find_partition_table" =>
        \A r \in 1..Len(calls[c].result) :
          calls[c].result[r].location = data.base =>
            LET found == calls[c].result[r].partitions
            IN  /\ Len(found) <= Len(partitions)
                /\ \A i \in 1..Len(found) :
                     /\ i <= Len(partitions)
                     /\ found[i].label = partitions[i].label
                     /\ found[i].offset = partitions[i].offset
                     /\ found[i].size = partitions[i].size

\* location q lies within the bytes of the entries of location r
Within(q, r) ==
  /\ q.location >= r.location
  /\ q.location < r.location + 32 * Len(r.partitions)

\* C28 as stated: no location of a scan lies within the bytes of the entries
\* of another location.
C28_NoOverlap ==
  \A i \in 1..Len(results) : \A j \in 1..Len(results) :
    i # j => ~Within(results[j], results[i])

\* C28 amended: a location lies within the entries of another location only
\* when that table is longer than one block of 4096 bytes (more than 128
\* entries); it then holds the entries of the table from its own offset on.
\* Locations of at most 128 entries are not overlapped.
C28_OverlapOnlyPastOneBlock ==
  \A i \in 1..Len(results) : \A j \in 1..Len(results) :
    (i # j /\ Within(results[j], results[i])) =>
      LET skipped == (results[j].location - results[i].location) \div 32
      IN  /\ Len(results[i].partitions) > 128
          /\ pc # "inner" =>
               results[j].partitions =
                 SubSeq(results[i].partitions, skipped + 1, Len(results[i].partitions))

\* a scan has ended with a table of 130 entries at 0 and its last two entries
\* reported again at 4096
C28_Witness ==
  /\ pc = "scanned"
  /\ Len(results) = 2
  /\ results[1].location = 0
  /\ Len(results[1].partitions) = 130
  /\ results[2].location = 4096
  /\ Len(results[2].partitions) = 2

\* the target of the other generator that names the same slot
Counterpart ==
  [ota_0 |-> "app0", ota_1 |-> "app1", app0 |-> "ota_0", app1 |-> "ota_1"]

\* C29: the region returned by one generator for ota_0 / ota_1 (app0 / app1)
\* equals, byte for byte, the region returned by the other generator for
\* app0 / app1 (ota_0 / ota_1); a call with a target outside the generator's
\* own map has raised and produced no region.
C29_GeneratorsEquivalent ==
  /\ (/\ pc = "returned"
      /\ Len(calls) = 1
      /\ calls[1].call.fn # gen
      /\ calls[1].call.arg \in DOMAIN Counterpart
      /\ target = Counterpart[calls[1].call.arg])
       => /\ calls[1].result = otadata
          /\ Len(otadata) = 8192
  /\ \A g \in Generators : \A t \in Targets :
       (pc \in {"returned", "raised"} /\ gen = g /\ target = t) =>
         IF t \in DOMAIN OtaMap(g) THEN pc = "returned"
         ELSE pc = "raised" /\ otadata = <<>> /\ ResultOf = <<"ValueError">>

\* create_otadata('ota_1') was called first and create_otadata_switch('app1')
\* has now returned the same region
C29_Witness ==
  /\ pc = "returned"
  /\ Len(calls) = 1
  /\ calls[1].call = [fn |-> "create_otadata", arg |-> "ota_1"]
  /\ gen = "create_otadata_switch"
  /\ target = "app1"
  /\ otadata = calls[1].result
  /\ SubSeq(otadata, 5, 8) = <<1, 0, 0, 0>>

\* C30: find_partition_table ends on every image. A pass of the inner loop
\* either moves pos one window on, never past the end of the image, or
\* leaves the loop; the window read is whole (32 bytes within the image);
\* the outer loop goes from a candidate to the one 4096 bytes on, entering
\* the inner loop at most once per candidate; and a scan under way reaches
\* its return.
C30_ScannerTerminates ==
  /\ [](pc \in {"scan", "inner", "scanned"} =>
          /\ offset % ALIGN = 0
          /\ Len(entry) \in {0, ENTRY_SIZE}
          /\ pc = "inner" =>
               /\ pos >= offset
               /\ (pos - offset) % ENTRY_SIZE = 0
               /\ pos <= BufLen(data)
               /\ Len(partitions) = (pos - offset) \div ENTRY_SIZE)
  /\ [][pc = "inner" =>
          \/ pc' = "inner" /\ pos' = pos + ENTRY_SIZE /\ pos' <= BufLen(data)
                           /\ offset' = offset
                           /\ entry' = Slice(data, pos, pos + ENTRY_SIZE)
          \/ pc' = "scan" /\ offset' = offset + ALIGN]_vars
  /\ [][pc = "scan" =>
          \/ pc' = "scanned" /\ offset' = offset
          \/ pc' = "inner" /\ offset' = offset /\ pos' = offset
          \/ pc' = "scan" /\ offset' = offset + ALIGN]_vars
  /\ (pc = "scan" ~> pc = "scanned")

\* a scan of an image of 4096 + 64 bytes has returned: the candidate at 0
\* was passed over, the inner loop walked the two entries at 4096 and
\* stopped at the end of the image
C30_Witness ==
  /\ pc = "scanned"
  /\ BufLen(data) = ALIGN + 2 * ENTRY_SIZE
  /\ offset = 2 * ALIGN
  /\ pos = BufLen(data)
  /\ Len(results) = 1
  /\ results[1].location = ALIGN
  /\ Len(results[1].partitions) = 2

====
